---- MODULE Spec2Model ----
(***************************************************************************)
(* Model of Wee-Web-Scraper.py: parse_website fetches one page, provisions *)
(* a directory tree, downloads the referenced assets one after another     *)
(* under a wall-clock time limit and rewrites the page to local paths.     *)
(* Strings are sequences of one-character strings, so that sanitising,     *)
(* URL parsing and path joining are computed as the code computes them.    *)
(***************************************************************************)
EXTENDS Integers, Sequences, FiniteSets, TLC

(***************************************************************************)
(* Bounds of the model.                                                    *)
(***************************************************************************)
MaxElems == 3
MaxLimit == 3
MaxNameLen == 3

(***************************************************************************)
(* Program constants.                                                      *)
(***************************************************************************)
PerRequestTimeout == 4
TitleMax == 20

None == <<"None">>
\* directory_name before create_directory has returned
NoDirectory == [timestamp |-> -1, name |-> <<>>]

(***************************************************************************)
(* Characters.                                                             *)
(***************************************************************************)
ascii_lowercase ==
  {"a","b","c","d","e","f","g","h","i","j","k","l","m",
   "n","o","p","q","r","s","t","u","v","w","x","y","z"}
ascii_uppercase ==
  {"A","B","C","D","E","F","G","H","I","J","K","L","M",
   "N","O","P","Q","R","S","T","U","V","W","X","Y","Z"}
ascii_letters == ascii_lowercase \cup ascii_uppercase
digits == {"0","1","2","3","4","5","6","7","8","9"}
AllowedChars == ascii_letters \cup digits \cup {".", "_", "-"}
scheme_chars == ascii_letters \cup digits \cup {"+", "-", "."}

(***************************************************************************)
(* String helpers (str.find, slicing, str.split, str.join).                *)
(***************************************************************************)
\* index of the first character of s that lies in cs, or Len(s)+1
FindFirst(s, cs) ==
  IF \E i \in 1..Len(s) : s[i] \in cs
  THEN CHOOSE i \in 1..Len(s) : s[i] \in cs /\ \A j \in 1..(i-1) : s[j] \notin cs
  ELSE Len(s) + 1

\* index of the last character of s that lies in cs, or 0
FindLast(s, cs) ==
  IF \E i \in 1..Len(s) : s[i] \in cs
  THEN CHOOSE i \in 1..Len(s) : s[i] \in cs /\ \A j \in (i+1)..Len(s) : s[j] \notin cs
  ELSE 0

Before(s, cs) == SubSeq(s, 1, FindFirst(s, cs) - 1)
From(s, cs) == SubSeq(s, FindFirst(s, cs), Len(s))
startswith(s, p) == Len(s) >= Len(p) /\ SubSeq(s, 1, Len(p)) = p

RECURSIVE SplitOn(_, _)
SplitOn(s, c) ==
  IF FindFirst(s, {c}) > Len(s) THEN <<s>>
  ELSE <<Before(s, {c})>> \o SplitOn(SubSeq(s, FindFirst(s, {c}) + 1, Len(s)), c)

RECURSIVE JoinWith(_, _)
JoinWith(parts, c) ==
  IF Len(parts) = 0 THEN <<>>
  ELSE IF Len(parts) = 1 THEN parts[1]
  ELSE parts[1] \o <<c>> \o JoinWith(Tail(parts), c)

\* os.path.join(a, b) for a relative b
path_join(a, b) == a \o <<"/">> \o b

\* os.path.basename
basename(p) == SubSeq(p, FindLast(p, {"/"}) + 1, Len(p))

(***************************************************************************)
(* sanitize_filename                                                       *)
(***************************************************************************)
\* variant: the fragment is not cut off
sanitize_filename_QueryOnly(filename) ==
  LET f1 == Before(filename, {"?"})
  IN [i \in 1..Len(f1) |-> IF f1[i] \in AllowedChars THEN f1[i] ELSE "_"]

\* variant: a disallowed character is replaced by a question mark
sanitize_filename_QuestionMark(filename) ==
  LET f1 == Before(filename, {"?"})
      f2 == Before(f1, {"#"})
  IN [i \in 1..Len(f2) |-> IF f2[i] \in AllowedChars THEN f2[i] ELSE "?"]

sanitize_filename(filename) ==
  LET f1 == Before(filename, {"?"})
      f2 == Before(f1, {"#"})
  IN [i \in 1..Len(f2) |-> IF f2[i] \in AllowedChars THEN f2[i] ELSE "_"]

(***************************************************************************)
(* urlparse (scheme and netloc), is_valid_url, urljoin                     *)
(***************************************************************************)
url_has_scheme(url) ==
  LET i == FindFirst(url, {":"})
  IN /\ i > 1
     /\ i <= Len(url)
     /\ url[1] \in ascii_letters
     /\ \A j \in 1..(i-1) : url[j] \in scheme_chars

url_scheme(url) ==
  IF url_has_scheme(url) THEN Before(url, {":"}) ELSE <<>>

url_after_scheme(url) ==
  IF url_has_scheme(url) THEN SubSeq(url, FindFirst(url, {":"}) + 1, Len(url)) ELSE url

url_netloc(url) ==
  LET r == url_after_scheme(url)
  IN IF startswith(r, <<"/", "/">>)
     THEN Before(SubSeq(r, 3, Len(r)), {"/", "?", "#"})
     ELSE <<>>

\* variant: the validation accepts everything
is_valid_url_AcceptsAll(url) == TRUE

is_valid_url(url) == url_netloc(url) # <<>> /\ url_scheme(url) # <<>>

RECURSIVE ResolveDots(_, _)
ResolveDots(segments, resolved) ==
  IF Len(segments) = 0 THEN resolved
  ELSE LET seg == Head(segments)
       IN IF seg = <<".", ".">>
          THEN ResolveDots(Tail(segments),
                           IF Len(resolved) = 0 THEN resolved
                           ELSE SubSeq(resolved, 1, Len(resolved) - 1))
          ELSE IF seg = <<".">>
          THEN ResolveDots(Tail(segments), resolved)
          ELSE ResolveDots(Tail(segments), Append(resolved, seg))

\* urljoin(base, url) for a base of the form scheme://netloc (empty path)
\* and a url without scheme and netloc
urljoin(base, url) ==
  LET path == Before(url, {"?", "#"})
      rest == From(url, {"?", "#"})
      parts == SplitOn(path, "/")
      segs0 == <<<<>>>> \o parts
      n == Len(segs0)
      middle == SelectSeq(SubSeq(segs0, 2, n - 1), LAMBDA x : x # <<>>)
      segments == <<segs0[1]>> \o middle \o <<segs0[n]>>
      res0 == ResolveDots(segments, <<>>)
      res == IF segments[Len(segments)] \in {<<".">>, <<".", ".">>}
             THEN Append(res0, <<>>) ELSE res0
      joined == JoinWith(res, "/")
      newpath == IF joined = <<>> THEN <<"/">>
                 ELSE IF Head(joined) = "/" THEN joined
                 ELSE <<"/">> \o joined
  IN IF url = <<>> THEN base ELSE base \o newpath \o rest


\* str.strip() for spaces
RECURSIVE strip(_)
strip(s) ==
  IF s # <<>> /\ Head(s) = " " THEN strip(Tail(s))
  ELSE IF s # <<>> /\ s[Len(s)] = " " THEN strip(SubSeq(s, 1, Len(s) - 1))
  ELSE s

(***************************************************************************)
(* Directory and category names.                                           *)
(***************************************************************************)
images == <<"i","m","a","g","e","s">>
audio == <<"a","u","d","i","o">>
pdfs == <<"p","d","f","s">>
text == <<"t","e","x","t">>
js == <<"j","s">>
css == <<"c","s","s">>
index_html == <<"i","n","d","e","x",".","h","t","m","l">>

\* parse_website: the subdirectories dictionary
subdirectories == {images, audio, pdfs, text, js, css}

\* variant: the scripts are walked first
Categories_ScriptsFirst ==
  << [tag |-> "script", attribute |-> "src",  subdir |-> js],
     [tag |-> "img",    attribute |-> "src",  subdir |-> images],
     [tag |-> "audio",  attribute |-> "src",  subdir |-> audio],
     [tag |-> "a",      attribute |-> "href", subdir |-> pdfs],
     [tag |-> "a",      attribute |-> "href", subdir |-> text] >>

\* variant: the anchors are walked once, for the pdfs directory only
Categories_AnchorsOnce ==
  << [tag |-> "img",    attribute |-> "src",  subdir |-> images],
     [tag |-> "audio",  attribute |-> "src",  subdir |-> audio],
     [tag |-> "a",      attribute |-> "href", subdir |-> pdfs],
     [tag |-> "script", attribute |-> "src",  subdir |-> js] >>

\* parse_website: the (tag, attribute, subdir) list walked by the download loop
Categories ==
  << [tag |-> "img",    attribute |-> "src",  subdir |-> images],
     [tag |-> "audio",  attribute |-> "src",  subdir |-> audio],
     [tag |-> "a",      attribute |-> "href", subdir |-> pdfs],
     [tag |-> "a",      attribute |-> "href", subdir |-> text],
     [tag |-> "script", attribute |-> "src",  subdir |-> js] >>

(***************************************************************************)
(* Inputs: the root URL, the pages the server may answer with.             *)
(* An element has a tag, at most one URL attribute (attr = "none" when it  *)
(* has none) with value val, and a rel value.                              *)
(***************************************************************************)
root_url == <<"h","t","t","p",":","/","/","h","/">>
RelPng == <<"a",".","p","n","g">>
AbsPng == <<"h","t","t","p",":","/","/","h","/","a",".","p","n","g">>
ParentJs == <<".",".","/","b",".","j","s","?","v","=","1">>
AbsPdf == <<"h","t","t","p",":","/","/","h","/","d",".","p","d","f">>
AbsCss == <<"h","t","t","p",":","/","/","h","/","s",".","c","s","s">>
NotAUrl == <<"n","o","t"," ","a"," ","u","r","l">>

Elem(t, a, v, r) == [tag |-> t, attr |-> a, val |-> v, rel |-> r]

\* the elements pages are made of, in document order
Elements ==
  << Elem("script", "src", ParentJs, ""),
     Elem("link", "href", AbsCss, "stylesheet"),
     Elem("a", "href", AbsPdf, ""),
     Elem("audio", "src", <<>>, ""),
     Elem("img", "none", <<>>, ""),
     Elem("img", "src", AbsPng, ""),
     Elem("audio", "src", NotAUrl, ""),
     Elem("img", "src", RelPng, "") >>

DemoTitle == <<" ","D","e","m","o"," ","P","a","g","e"," ">>

\* the elements of Elements at the positions in S, in document order
Selection(S) == SelectSeq([i \in 1..Len(Elements) |-> i], LAMBDA i : i \in S)
ElemsAt(S) == [k \in 1..Len(Selection(S)) |-> Elements[Selection(S)[k]]]

TenImages == [i \in 1..10 |-> Elem("img", "src", AbsPng, "")]

Pages ==
  {[title |-> DemoTitle, elems |-> ElemsAt(S)] :
      S \in {T \in SUBSET (1..Len(Elements)) : Cardinality(T) <= MaxElems}}
    \cup {[title |-> None, elems |-> <<>>]}

Limits == 0..MaxLimit
\* time a GET may take: none, a little, or all of the per-request timeout
Durations == {0, 1, PerRequestTimeout}
\* time the local directory creation may take
ProvisionTimes == {0, 1}

has_attr(e, a) == e.attr = a

\* the body the server sends for an asset URL that answers 200
Body(url) == [kind |-> "asset", served_at |-> url]


(***************************************************************************)
(* The download loop of parse_website walks, category by category, the     *)
(* elements with the category's tag that carry its attribute, in document  *)
(* order.  AssetRefs lists these (category, element) pairs in loop order.  *)
(***************************************************************************)
RefsOfCategory(elems, c) ==
  LET idx == SelectSeq([i \in 1..Len(elems) |-> i],
                       LAMBDA i : elems[i].tag = Categories[c].tag
                                  /\ has_attr(elems[i], Categories[c].attribute))
  IN [j \in 1..Len(idx) |-> [cat |-> c, elem |-> idx[j]]]

RECURSIVE RefsFrom(_, _)
RefsFrom(elems, c) ==
  IF c > Len(Categories) THEN <<>>
  ELSE RefsOfCategory(elems, c) \o RefsFrom(elems, c + 1)

AssetRefs(elems) == RefsFrom(elems, 1)

\* parse_website: base_url = scheme + "://" + netloc
base_url_of(url) == url_scheme(url) \o <<":", "/", "/">> \o url_netloc(url)

\* parse_website: content_url after the ".." test
content_url_of(raw, base) ==
  IF startswith(raw, <<".", ".">>) THEN urljoin(base, raw) ELSE raw

\* create_directory: timestamp + "_" + sanitize_filename(title[:20])
directory_name_of(timestamp, title) ==
  [timestamp |-> timestamp,
   name |-> sanitize_filename(SubSeq(title, 1, IF Len(title) < TitleMax THEN Len(title) ELSE TitleMax))]

\* modify_html_content: the attribute rewriting of one element
rewrite_elem(e) ==
  IF e.tag = "img" /\ has_attr(e, "src")
  THEN [e EXCEPT !.val = path_join(images, sanitize_filename(e.val))]
  ELSE IF e.tag = "script" /\ has_attr(e, "src")
  THEN [e EXCEPT !.val = path_join(js, sanitize_filename(e.val))]
  ELSE IF e.tag = "link" /\ e.rel = "stylesheet" /\ has_attr(e, "href")
  THEN [e EXCEPT !.val = path_join(css, sanitize_filename(e.val))]
  ELSE e

\* the bytes of the root page as served, and the prettified rewritten page
RawContent(pg) == [kind |-> "raw", title |-> pg.title, elems |-> pg.elems]
modified_content(pg) ==
  [kind |-> "prettified", title |-> pg.title,
   elems |-> [i \in 1..Len(pg.elems) |-> rewrite_elem(pg.elems[i])]]

(***************************************************************************)
(* State.                                                                  *)
(***************************************************************************)
VARIABLES
  page,            \* the page the server answers the root URL with
  time_limit,      \* parse_website's time_limit argument
  pc,              \* position of the run in parse_website
  now,             \* the wall clock, time.time()
  start_time,      \* parse_website's start_time
  directory_name,  \* the provisioned root directory
  dirs,            \* subdirectories created under directory_name
  files,           \* files under directory_name: relative path -> content
  pos,             \* index in AssetRefs of the reference the loop is at
  outcomes,        \* one record per download_file call, in call order
  gets,            \* URLs passed to requests.get, in call order
  printed,         \* the notices printed so far
  loop_start,      \* the clock when the download loop was entered (line 175)
  san_input,       \* a string handed to sanitize_filename on its own
  san_results      \* the results of applying sanitize_filename to it repeatedly

vars == <<page, time_limit, pc, now, start_time, directory_name, dirs, files,
          pos, outcomes, gets, printed, loop_start, san_input, san_results>>

san_vars == <<san_input, san_results>>

elapsed_time == now - start_time
refs == AssetRefs(page.elems)
base_url == base_url_of(root_url)

Init ==
  /\ \/ page \in Pages /\ time_limit \in Limits
     \/ page = [title |-> DemoTitle, elems |-> TenImages] /\ time_limit = 0
  /\ pc = "Init"
  /\ now = 0
  /\ start_time = 0
  /\ directory_name = NoDirectory
  /\ dirs = {}
  /\ files = <<>>
  /\ pos = 1
  /\ outcomes = <<>>
  /\ gets = <<>>
  /\ printed = {}
  /\ loop_start = 0
  /\ san_input = <<>>
  /\ san_results = <<>>

(***************************************************************************)
(* parse_website, lines 136-149: start the clock and GET the root page.    *)
(***************************************************************************)
\* variant: the return after a failed root GET is missing
after_root_fetch_NoReturn(ok) == "RootFetched"

\* lines 143-149: a failed root GET prints and returns
after_root_fetch(ok) == IF ok THEN "RootFetched" ELSE "Failed"

FetchRoot ==
  /\ pc = "Init"
  /\ \E d \in Durations, ok \in BOOLEAN :
       /\ start_time' = now
       /\ now' = now + d
       /\ gets' = Append(gets, root_url)
       /\ pc' = after_root_fetch(ok)
       /\ printed' = IF ok THEN printed
                     ELSE printed \cup {"Failed to access website"}
  /\ UNCHANGED <<san_vars, page, time_limit, directory_name, dirs, files, pos, outcomes,
                 loop_start>>

(***************************************************************************)
(* parse_website, lines 152-168: title, create_directory, subdirectories.  *)
(* soup.title is None for a page without a title (the attribute access     *)
(* raises); os.makedirs may raise.  Either ends the run.                   *)
(***************************************************************************)
Provision ==
  /\ pc = "RootFetched"
  /\ \E d \in ProvisionTimes, mk \in {"ok", "root fails", "subdir fails"} :
       /\ now' = now + d
       /\ IF page.title = None
          THEN /\ pc' = "Failed"
               /\ UNCHANGED <<directory_name, dirs>>
          ELSE IF mk = "root fails"
          THEN /\ pc' = "Failed"
               /\ UNCHANGED <<directory_name, dirs>>
          ELSE IF mk = "subdir fails"
          THEN /\ pc' = "Failed"
               /\ directory_name' = directory_name_of(now, strip(page.title))
               /\ dirs' = dirs
          ELSE /\ pc' = "Provisioned"
               /\ directory_name' = directory_name_of(now, strip(page.title))
               /\ dirs' = subdirectories
  /\ UNCHANGED <<san_vars, page, time_limit, start_time, files, pos, outcomes, gets, printed,
                 loop_start>>

(***************************************************************************)
(* parse_website, lines 170-172: save the raw page as index.html.          *)
(***************************************************************************)
PersistRaw ==
  /\ pc = "Provisioned"
  /\ files' = (index_html :> RawContent(page)) @@ files
  /\ pc' = "Acquiring"
  /\ loop_start' = now
  /\ UNCHANGED <<san_vars, page, time_limit, now, start_time, directory_name, dirs, pos,
                 outcomes, gets, printed>>

(***************************************************************************)
(* parse_website, lines 182-189 with download_file, lines 59-94: one       *)
(* iteration of the loop up to the return of download_file.                *)
(***************************************************************************)
\* variant: a failed GET is not caught and ends the run
after_download_file_Uncaught(status) ==
  IF status = "FetchFailed" THEN "Failed" ELSE "Downloaded"

\* download_file returns to the loop on every path (lines 73, 81, 92, 94)
after_download_file(status) == "Downloaded"

Outcome(r, url, filename, status, path) ==
  [cat |-> r.cat, elem |-> r.elem, url |-> url, filename |-> filename,
   status |-> status, path |-> path]

DownloadFile ==
  /\ pc = "Acquiring"
  /\ pos <= Len(refs)
  /\ LET r == refs[pos]
         subdir == Categories[r.cat].subdir
         content_url == content_url_of(page.elems[r.elem].val, base_url)
         filename == basename(content_url)
         sanitized_filename == sanitize_filename(filename)
         file_path == path_join(subdir, sanitized_filename)
     IN IF ~is_valid_url(content_url)
        THEN /\ printed' = printed \cup {"Skipping invalid URL"}
             /\ outcomes' = Append(outcomes,
                   Outcome(r, content_url, filename, "SkippedInvalidURL", None))
             /\ UNCHANGED <<now, gets, files, dirs>>
        ELSE \E d \in Durations, response \in {"ok", "RequestException"},
                wr \in {"ok", "IOError"} :
             /\ now' = now + d
             /\ gets' = Append(gets, content_url)
             /\ IF response = "RequestException"
                THEN /\ wr = "ok"
                     /\ printed' = printed \cup {"Failed to download file"}
                     /\ outcomes' = Append(outcomes,
                           Outcome(r, content_url, filename, "FetchFailed", None))
                     /\ UNCHANGED <<files, dirs>>
                ELSE IF wr = "IOError" \/ sanitized_filename = <<>>
                THEN /\ printed' = printed \cup {"Failed to save file"}
                     /\ outcomes' = Append(outcomes,
                           Outcome(r, content_url, filename, "WriteFailed", None))
                     /\ dirs' = dirs \cup {subdir}
                     /\ UNCHANGED files
                ELSE /\ printed' = printed
                     /\ outcomes' = Append(outcomes,
                           Outcome(r, content_url, filename, "Saved", file_path))
                     /\ dirs' = dirs \cup {subdir}
                     /\ files' = (file_path :> Body(content_url)) @@ files
  /\ pc' = after_download_file(outcomes'[Len(outcomes')].status)
  /\ UNCHANGED <<san_vars, page, time_limit, start_time, directory_name, pos, loop_start>>

(***************************************************************************)
(* parse_website, lines 191-195: the elapsed-time check after the call.    *)
(***************************************************************************)
\* variant: the comparison is strict
time_limit_exceeded_Strict(elapsed, limit) == elapsed > limit

\* variant: the comparison is inverted
time_limit_exceeded_Inverted(elapsed, limit) == elapsed <= limit

\* line 193: elapsed_time >= time_limit
time_limit_exceeded(elapsed, limit) == elapsed >= limit

\* index of the first reference of a later category than that of reference p
NextCategoryPos(p) ==
  IF \E q \in (p+1)..Len(refs) : refs[q].cat > refs[p].cat
  THEN CHOOSE q \in (p+1)..Len(refs) :
          refs[q].cat > refs[p].cat /\ \A m \in (p+1)..(q-1) : refs[m].cat = refs[p].cat
  ELSE Len(refs) + 1

\* variant: the time limit leaves the inner loop only (break)
on_time_limit_Break(p) == [pc |-> "Acquiring", pos |-> NextCategoryPos(p)]

\* line 195: return from parse_website
on_time_limit(p) == [pc |-> "Truncated", pos |-> p]

\* variant: a reference whose GET failed is processed again
next_reference_RetryFailed(p) ==
  IF outcomes[Len(outcomes)].status = "FetchFailed" THEN p ELSE p + 1

\* line 182: the for loop moves on to the next element
next_reference(p) == p + 1

CheckTime ==
  /\ pc = "Downloaded"
  /\ IF time_limit_exceeded(elapsed_time, time_limit)
     THEN /\ printed' = printed \cup {"Time limit exceeded"}
          /\ pc' = on_time_limit(pos).pc
          /\ pos' = on_time_limit(pos).pos
     ELSE /\ printed' = printed
          /\ pc' = "Acquiring"
          /\ pos' = next_reference(pos)
  /\ UNCHANGED <<san_vars, page, time_limit, now, start_time, directory_name, dirs, files,
                 outcomes, gets, loop_start>>

(***************************************************************************)
(* parse_website, line 198 with modify_html_content, lines 97-125.         *)
(***************************************************************************)
\* variant: the rewritten page gets a name of its own
rewritten_page_path_Separate == <<"l","o","c","a","l",".","h","t","m","l">>

\* line 124: os.path.join(directory_name, "index.html")
rewritten_page_path == index_html

\* variant: only the references whose download was saved are rewritten
rewritten_page_OnlySaved ==
  [kind |-> "prettified", title |-> page.title,
   elems |-> [i \in 1..Len(page.elems) |->
                IF \E j \in 1..Len(outcomes) :
                      outcomes[j].elem = i /\ outcomes[j].status = "Saved"
                THEN rewrite_elem(page.elems[i]) ELSE page.elems[i]]]

\* line 198: modify_html_content(response.content, directory_name, base_url)
rewritten_page == modified_content(page)

ModifyHtmlContent ==
  /\ pc = "Acquiring"
  /\ pos > Len(refs)
  /\ files' = (rewritten_page_path :> rewritten_page) @@ files
  /\ pc' = "Rewritten"
  /\ UNCHANGED <<san_vars, page, time_limit, now, start_time, directory_name, dirs, pos,
                 outcomes, gets, printed, loop_start>>

(***************************************************************************)
(* parse_website, line 200: the completion notice.                         *)
(***************************************************************************)
Complete ==
  /\ pc = "Rewritten"
  /\ printed' = printed \cup {"Website parsing and download completed"}
  /\ pc' = "Done"
  /\ UNCHANGED <<san_vars, page, time_limit, now, start_time, directory_name, dirs, files,
                 pos, outcomes, gets, loop_start>>

Next ==
  \/ FetchRoot
  \/ Provision
  \/ PersistRaw
  \/ DownloadFile
  \/ CheckTime
  \/ ModifyHtmlContent
  \/ Complete

Spec == Init /\ [][Next]_vars

\* the run cannot be pre-empted: every enabled step is eventually taken
FairSpec == Spec /\ WF_vars(Next)

(***************************************************************************)
(* sanitize_filename on its own: the input is any string of at most        *)
(* MaxNameLen characters of NameChars; the function is applied to it and   *)
(* then to its own result.                                                 *)
(***************************************************************************)
NameChars == {"a", "_", "?", "#", "/", " "}

RECURSIVE StringsUpTo(_)
StringsUpTo(n) ==
  IF n = 0 THEN {<<>>}
  ELSE LET shorter == StringsUpTo(n - 1)
       IN shorter \cup {Append(t, c) : t \in {u \in shorter : Len(u) = n - 1},
                                       c \in NameChars}

SanInit ==
  /\ san_input \in StringsUpTo(MaxNameLen)
  /\ san_results = <<>>
  /\ page = [title |-> None, elems |-> <<>>]
  /\ time_limit = 0
  /\ pc = "Init"
  /\ now = 0
  /\ start_time = 0
  /\ directory_name = NoDirectory
  /\ dirs = {}
  /\ files = <<>>
  /\ pos = 1
  /\ outcomes = <<>>
  /\ gets = <<>>
  /\ printed = {}
  /\ loop_start = 0

ApplySanitize ==
  /\ Len(san_results) < 2
  /\ san_results' = Append(san_results,
        sanitize_filename(IF san_results = <<>> THEN san_input
                          ELSE san_results[Len(san_results)]))
  /\ UNCHANGED <<san_input, page, time_limit, pc, now, start_time, directory_name,
                 dirs, files, pos, outcomes, gets, printed, loop_start>>

SanNext == ApplySanitize

SanSpec == SanInit /\ [][SanNext]_vars


(***************************************************************************)
(* Vocabulary of the properties.                                           *)
(***************************************************************************)
Terminated == pc \in {"Failed", "Truncated", "Done"}
RawPersisted == index_html \in DOMAIN files
LastOutcome == outcomes[Len(outcomes)]
FailedStatuses == {"SkippedInvalidURL", "FetchFailed", "WriteFailed"}
TruncationNotice == "Time limit exceeded"
CompletionNotice == "Website parsing and download completed"
\* time spent in the download loop so far
loop_time == now - loop_start
IsTenImages == page.elems = TenImages
\* the reference the loop is about to process, and its resolved URL
AtReference == pc = "Acquiring" /\ pos <= Len(refs)
NextUrl == content_url_of(page.elems[refs[pos].elem].val, base_url)
\* the path, relative to the root directory, under which download_file
\* stores the asset of an outcome
StorePath(o) == path_join(Categories[o.cat].subdir, sanitize_filename(basename(o.url)))

(***************************************************************************)
(* C1, as stated: the elapsed-time check precedes each reference, so no    *)
(* GET for an asset is issued at a point where the elapsed time has        *)
(* reached the budget.                                                     *)
(***************************************************************************)
C1_CheckBeforeEachReference ==
  [][(AtReference /\ gets' # gets) => elapsed_time < time_limit]_vars

(***************************************************************************)
(* C1, amended: the elapsed-time check follows each processed reference;   *)
(* a run stopped by it has printed the notice and processes nothing more,  *)
(* and a later reference is only reached while the elapsed time is below   *)
(* the budget.  For the page with 10 image references and budget 0 exactly *)
(* one download attempt is made, and the stopped run has the notice, the   *)
(* directory and index.html.                                               *)
(***************************************************************************)
C1_CheckAfterEachReference ==
  /\ (pc = "Acquiring" /\ pos > 1) => elapsed_time < time_limit
  /\ pc = "Truncated" =>
        /\ elapsed_time >= time_limit
        /\ TruncationNotice \in printed
        /\ Len(outcomes) = pos
        /\ ~ENABLED Next
  /\ (IsTenImages /\ time_limit = 0) =>
        /\ Len(outcomes) <= 1
        /\ Len(gets) <= 2
        /\ (pc \in {"Downloaded", "Truncated"} => Len(outcomes) = 1)
        /\ (Terminated /\ RawPersisted) =>
              /\ pc = "Truncated"
              /\ directory_name # NoDirectory
              /\ files[index_html] = RawContent(page)

C1_Witness ==
  /\ IsTenImages /\ time_limit = 0
  /\ pc = "Truncated"
  /\ Len(outcomes) = 1
  /\ Len(gets) = 2
  /\ TruncationNotice \in printed

(***************************************************************************)
(* C2, as stated: a run that has persisted the raw page (entered           *)
(* Acquiring) ends rewritten and Done, whatever the outcomes and the       *)
(* budget.                                                                 *)
(***************************************************************************)
C2_AcquiringEndsDone ==
  (RawPersisted /\ Terminated) =>
     /\ pc = "Done"
     /\ files[index_html] = modified_content(page)

(***************************************************************************)
(* C3, as stated: a run to completion in which every GET answered 200 and  *)
(* every write succeeded has stored the asset of each plain relative       *)
(* reference src="a.png" as images/a.png, with the bytes served at the URL *)
(* resolved against the root page, and index.html references images/a.png. *)
(***************************************************************************)
C3_RelativeImageSaved ==
  (pc = "Done" /\ \A j \in 1..Len(outcomes) :
                     outcomes[j].status \notin {"FetchFailed", "WriteFailed"}) =>
     \A i \in 1..Len(page.elems) :
        (page.elems[i].tag = "img" /\ has_attr(page.elems[i], "src")
           /\ page.elems[i].val = RelPng) =>
           /\ path_join(images, RelPng) \in DOMAIN files
           /\ files[path_join(images, RelPng)] = Body(base_url \o <<"/">> \o RelPng)
           /\ \E j \in 1..Len(outcomes) :
                 outcomes[j].elem = i /\ outcomes[j].status = "Saved"
           /\ files[index_html].elems[i].val = path_join(images, RelPng)

(***************************************************************************)
(* C4, as stated: in the rewritten page every img and script reference     *)
(* carries the path under which the download loop stores that asset,       *)
(* <categoryDir>/<sanitize(basename of the resolved URL)>.                  *)
(***************************************************************************)
C4_RewriterAgreesWithStore ==
  pc \in {"Rewritten", "Done"} =>
     \A j \in 1..Len(outcomes) :
        Categories[outcomes[j].cat].tag \in {"img", "script"} =>
           files[index_html].elems[outcomes[j].elem].val = StorePath(outcomes[j])

(***************************************************************************)
(* C5, as stated: every attribute the rewriter changed to a local path     *)
(* belongs to a reference the download loop attempted, in a category of    *)
(* the loop's list.                                                        *)
(***************************************************************************)
C5_RewritesOnlyAttempted ==
  pc \in {"Rewritten", "Done"} =>
     \A i \in 1..Len(page.elems) :
        files[index_html].elems[i] # page.elems[i] =>
           \E j \in 1..Len(outcomes) :
              /\ outcomes[j].elem = i
              /\ Categories[outcomes[j].cat].tag = page.elems[i].tag
              /\ Categories[outcomes[j].cat].attribute = page.elems[i].attr


(***************************************************************************)
(* C6, as stated: when the budget is smaller than the time the asset       *)
(* fetches took, the finished run attempted fewer than N references and    *)
(* printed the time-limit notice.                                          *)
(***************************************************************************)
C6_FewerThanN ==
  (Terminated /\ RawPersisted /\ Len(refs) >= 1 /\ time_limit < loop_time) =>
     /\ Len(outcomes) < Len(refs)
     /\ TruncationNotice \in printed

(***************************************************************************)
(* C6, amended: when the budget is smaller than the time the asset fetches *)
(* took (N >= 1), the finished run printed the time-limit notice and       *)
(* attempted at least one and at most N references - all N when the budget *)
(* ran out during the last fetch - and was not rewritten.                  *)
(***************************************************************************)
C6_TruncatedAtMostN ==
  (Terminated /\ RawPersisted /\ Len(refs) >= 1 /\ time_limit < loop_time) =>
     /\ pc = "Truncated"
     /\ TruncationNotice \in printed
     /\ Len(outcomes) >= 1
     /\ Len(outcomes) <= Len(refs)

C6_Witness ==
  /\ pc = "Truncated"
  /\ time_limit < loop_time
  /\ Len(refs) >= 2
  /\ Len(outcomes) = Len(refs)

C8_RawCopyKept ==
  pc = "Done" => \E p \in DOMAIN files : files[p] = RawContent(page)

(***************************************************************************)
(* C8, amended: the raw page is stored as index.html until the rewrite;    *)
(* the rewritten page is written to the same path and replaces it, so      *)
(* after a run that reaches Done index.html holds the rewritten page and   *)
(* no file holds the raw bytes.                                            *)
(***************************************************************************)
C8_RewriteReplacesRaw ==
  /\ pc \in {"Acquiring", "Downloaded", "Truncated"} =>
        files[index_html] = RawContent(page)
  /\ pc \in {"Rewritten", "Done"} =>
        /\ files[index_html] = modified_content(page)
        /\ \A p \in DOMAIN files : files[p] # RawContent(page)

C8_Witness ==
  /\ pc = "Done"
  /\ files[index_html].kind = "prettified"
  /\ Cardinality(DOMAIN files) >= 2

(***************************************************************************)
(* C9: a reference is always processed up to the return of download_file;  *)
(* when the call ends with an invalid-URL skip, a network failure or a     *)
(* write failure it has created no file, and the next step of the run is   *)
(* the time check, which moves on to the next reference unless the budget  *)
(* is used up.                                                             *)
(***************************************************************************)
C9_AssetErrorsDoNotAbort ==
  [][/\ AtReference =>
          /\ pc' = "Downloaded"
          /\ Len(outcomes') = Len(outcomes) + 1
          /\ outcomes'[Len(outcomes')].status \in FailedStatuses => files' = files
     /\ (pc = "Downloaded" /\ LastOutcome.status \in FailedStatuses) =>
          IF elapsed_time < time_limit
          THEN pc' = "Acquiring" /\ pos' = pos + 1
          ELSE pc' = "Truncated"]_vars

C9_Witness ==
  /\ pc = "Downloaded"
  /\ Len(outcomes) >= 2
  /\ outcomes[Len(outcomes) - 1].status = "FetchFailed"
  /\ LastOutcome.status = "WriteFailed"

(***************************************************************************)
(* C10: when the URL handed to download_file lacks a scheme or lacks a     *)
(* network location the call ends with the invalid-URL skip, issues no GET *)
(* and writes no file.                                                     *)
(***************************************************************************)
LacksSchemeOrNetloc(url) == url_scheme(url) = <<>> \/ url_netloc(url) = <<>>

C10_InvalidUrlNoGet ==
  [][(AtReference /\ LacksSchemeOrNetloc(NextUrl)) =>
        /\ outcomes'[Len(outcomes')].status = "SkippedInvalidURL"
        /\ outcomes'[Len(outcomes')].url = NextUrl
        /\ gets' = gets
        /\ files' = files]_vars

C10_Witness ==
  /\ pc = "Downloaded"
  /\ \E j \in 1..Len(outcomes) :
        outcomes[j].url = <<>> /\ outcomes[j].status = "SkippedInvalidURL"
  /\ \E j \in 1..Len(outcomes) :
        outcomes[j].url = NotAUrl /\ outcomes[j].status = "SkippedInvalidURL"
  /\ Len(gets) = 1


(***************************************************************************)
(* C11: in a run that reached the rewrite, every img src and script src    *)
(* holds a local path - the category directory joined with the sanitised   *)
(* attribute value - whatever the outcome of its download was; a reference *)
(* whose download failed has the rewritten value all the same, and its     *)
(* download has left no file (a file at its store path comes from another  *)
(* reference that was saved there).                                        *)
(***************************************************************************)
RewriteDir(e) == IF e.tag = "img" THEN images ELSE js

C11_RewriteWhateverTheOutcome ==
  pc \in {"Rewritten", "Done"} =>
     /\ Len(outcomes) = Len(refs)
     /\ \A i \in 1..Len(page.elems) :
           (page.elems[i].tag \in {"img", "script"} /\ has_attr(page.elems[i], "src")) =>
              /\ files[index_html].elems[i].val =
                    path_join(RewriteDir(page.elems[i]),
                              sanitize_filename(page.elems[i].val))
              /\ files[index_html].elems[i].val # page.elems[i].val
     /\ \A j \in 1..Len(outcomes) :
           outcomes[j].status \in FailedStatuses =>
              \/ StorePath(outcomes[j]) \notin DOMAIN files
              \/ \E k \in 1..Len(outcomes) :
                    /\ outcomes[k].status = "Saved"
                    /\ outcomes[k].path = StorePath(outcomes[j])

C11_Witness ==
  /\ pc = "Done"
  /\ \E j \in 1..Len(outcomes) :
        /\ outcomes[j].status = "FetchFailed"
        /\ Categories[outcomes[j].cat].tag = "img"
        /\ StorePath(outcomes[j]) \notin DOMAIN files
        /\ startswith(files[index_html].elems[outcomes[j].elem].val, images \o <<"/">>)
  /\ \E j \in 1..Len(outcomes) :
        /\ outcomes[j].status = "WriteFailed"
        /\ Categories[outcomes[j].cat].tag = "script"


(***************************************************************************)
(* C12: a failed root GET, a page without a title and a failed directory   *)
(* creation end the run in Failed; Failed is absorbing; a failed run has   *)
(* started no asset fetch, written no index.html and printed no completion *)
(* notice, and after a failed root GET no directory exists.                *)
(***************************************************************************)
C12_FatalErrorsEndTheRun ==
  /\ pc = "Failed" =>
        /\ ~ENABLED Next
        /\ outcomes = <<>>
        /\ gets = <<root_url>>
        /\ files = <<>>
        /\ CompletionNotice \notin printed
        /\ "Failed to access website" \in printed =>
              directory_name = NoDirectory /\ dirs = {}
        /\ dirs # subdirectories
  /\ (pc \notin {"Init", "Failed"}) => "Failed to access website" \notin printed
  /\ (page.title = None) => pc \in {"Init", "RootFetched", "Failed"}

C12_Witness ==
  /\ pc = "Failed"
  /\ "Failed to access website" \in printed
  /\ Len(page.elems) >= 1
  /\ directory_name = NoDirectory


(***************************************************************************)
(* C13: the result of sanitize_filename has as many characters as the      *)
(* input has before its first '?' or '#', each allowed character of that   *)
(* prefix kept and each other one replaced by '_'; so all its characters   *)
(* are letters, digits, '.', '_' or '-'.                                   *)
(***************************************************************************)
C13_SanitizeMapsThePrefix ==
  san_results # <<>> =>
     LET out == san_results[1]
         cut == IF \E i \in 1..Len(san_input) : san_input[i] \in {"?", "#"}
                THEN (CHOOSE i \in 1..Len(san_input) :
                        /\ san_input[i] \in {"?", "#"}
                        /\ \A j \in 1..(i-1) : san_input[j] \notin {"?", "#"}) - 1
                ELSE Len(san_input)
     IN /\ Len(out) = cut
        /\ \A i \in 1..Len(out) :
              /\ out[i] \in ascii_letters \cup digits \cup {".", "_", "-"}
              /\ out[i] = IF san_input[i] \in ascii_letters \cup digits \cup {".", "_", "-"}
                          THEN san_input[i] ELSE "_"

C13_Witness ==
  /\ san_input = <<"/", "a", "#">>
  /\ san_results = << <<"_", "a">> >>

(***************************************************************************)
(* C14: applying sanitize_filename to its own result gives that result.    *)
(***************************************************************************)
C14_SanitizeIdempotent ==
  Len(san_results) = 2 => san_results[2] = san_results[1]

C14_Witness ==
  /\ san_input = <<" ", "a", "?">>
  /\ Len(san_results) = 2
  /\ san_results[2] = <<"_", "a">>


(***************************************************************************)
(* C15: a call of download_file issues at most one GET, and no reference   *)
(* (an element in a category) is handed to download_file twice: the GETs   *)
(* after the root page are exactly those of the attempted references that  *)
(* had a valid URL, one each, in order.                                    *)
(***************************************************************************)
AttemptsWithGet == SelectSeq(outcomes, LAMBDA o : o.status # "SkippedInvalidURL")

C15_OneGetPerReference ==
  /\ \A j, k \in 1..Len(outcomes) :
        (outcomes[j].cat = outcomes[k].cat /\ outcomes[j].elem = outcomes[k].elem)
           => j = k
  /\ Len(outcomes) <= Len(refs)
  /\ gets # <<>> =>
        /\ Len(gets) = 1 + Len(AttemptsWithGet)
        /\ \A j \in 1..Len(AttemptsWithGet) : gets[j + 1] = AttemptsWithGet[j].url

C15_Witness ==
  /\ pc = "Done"
  /\ Len(outcomes) >= 3
  /\ outcomes[1].status = "FetchFailed"
  /\ Len(gets) = 1 + Len(outcomes)


(***************************************************************************)
(* C16, as stated: with every GET taking at most the per-request timeout,  *)
(* the elapsed time since the start of the run, once an asset fetch has    *)
(* finished, never exceeds the budget plus one per-request timeout.        *)
(***************************************************************************)
C16_WithinBudgetPlusTimeout ==
  outcomes # <<>> => elapsed_time <= time_limit + PerRequestTimeout

(***************************************************************************)
(* C16, amended: the bound holds from the second processed reference on,   *)
(* each of which is started only after a check found the elapsed time      *)
(* below the budget.  The first reference is processed without a check     *)
(* before it: when it finishes the elapsed time is at most the time the    *)
(* root fetch and the provisioning took plus one per-request timeout.      *)
(***************************************************************************)
C16_BoundAfterFirstCheck ==
  /\ Len(outcomes) >= 2 => elapsed_time <= time_limit + PerRequestTimeout
  /\ Len(outcomes) = 1 =>
        elapsed_time <= (loop_start - start_time) + PerRequestTimeout

C16_Witness ==
  /\ pc = "Downloaded"
  /\ Len(outcomes) >= 2
  /\ time_limit >= 1
  /\ elapsed_time = time_limit + PerRequestTimeout - 1


CategoryRank(d) ==
  CASE d = images -> 1 [] d = audio -> 2 [] d = pdfs -> 3 [] d = text -> 4 [] d = js -> 5

OutcomeRank(o) == CategoryRank(Categories[o.cat].subdir)

C18_SequentialFixedOrder ==
  /\ (outcomes # <<>> \/ Len(gets) >= 2) => RawPersisted
  /\ Len(gets) <= 1 + Len(outcomes)
  /\ pc \in {"Downloaded", "Truncated"} => Len(outcomes) = pos
  /\ pc \in {"Acquiring", "Rewritten", "Done"} => Len(outcomes) = pos - 1
  /\ \A j, k \in 1..Len(outcomes) :
        j < k => \/ OutcomeRank(outcomes[j]) < OutcomeRank(outcomes[k])
                 \/ /\ OutcomeRank(outcomes[j]) = OutcomeRank(outcomes[k])
                    /\ outcomes[j].elem < outcomes[k].elem
  /\ \A k \in 1..Len(outcomes), c \in 1..Len(Categories), i \in 1..Len(page.elems) :
        (/\ page.elems[i].tag = Categories[c].tag
         /\ has_attr(page.elems[i], Categories[c].attribute)
         /\ \/ CategoryRank(Categories[c].subdir) < OutcomeRank(outcomes[k])
            \/ /\ CategoryRank(Categories[c].subdir) = OutcomeRank(outcomes[k])
               /\ i < outcomes[k].elem)
        => \E j \in 1..(k-1) : outcomes[j].cat = c /\ outcomes[j].elem = i

C18_Witness ==
  /\ pc = "Done"
  /\ Len(outcomes) = 3
  /\ outcomes[1].cat = outcomes[2].cat
  /\ outcomes[1].elem < outcomes[2].elem
  /\ outcomes[3].elem < outcomes[1].elem
  /\ Len(gets) = 3


(***************************************************************************)
(* C19: no run prints both the time-limit notice and the completion        *)
(* notice, and in a run that printed the time-limit notice index.html      *)
(* holds the raw page, not a rewritten one.                                *)
(***************************************************************************)
C19_TruncatedRunKeepsRawPage ==
  /\ ~(TruncationNotice \in printed /\ CompletionNotice \in printed)
  /\ TruncationNotice \in printed =>
        /\ pc = "Truncated"
        /\ DOMAIN files \cap {index_html, rewritten_page_path} = {index_html}
        /\ files[index_html] = RawContent(page)
        /\ files[index_html] # modified_content(page)
  /\ CompletionNotice \in printed => files[index_html] = modified_content(page)

C19_Witness ==
  /\ pc = "Truncated"
  /\ TruncationNotice \in printed
  /\ Len(outcomes) = Len(refs)
  /\ outcomes[1].status = "Saved"
  /\ files[index_html].kind = "raw"

(***************************************************************************)
(* C20: in a run that was not truncated every anchor with an href has been *)
(* handed to download_file exactly twice, with the same URL and file name, *)
(* once for pdfs and once for text, whatever its file type; when both      *)
(* downloads were saved the same bytes lie under pdfs/ and text/ with the  *)
(* same local name.                                                        *)
(***************************************************************************)
AttemptsOf(i) == {j \in 1..Len(outcomes) : outcomes[j].elem = i}

C20_AnchorsFetchedTwice ==
  pc \in {"Rewritten", "Done"} =>
     \A i \in 1..Len(page.elems) :
        (page.elems[i].tag = "a" /\ has_attr(page.elems[i], "href")) =>
           /\ Cardinality(AttemptsOf(i)) = 2
           /\ \E j, k \in AttemptsOf(i) :
                 /\ Categories[outcomes[j].cat].subdir = pdfs
                 /\ Categories[outcomes[k].cat].subdir = text
                 /\ j < k
                 /\ outcomes[j].url = outcomes[k].url
                 /\ outcomes[j].filename = outcomes[k].filename
                 /\ (outcomes[j].status = "Saved" /\ outcomes[k].status = "Saved") =>
                       LET name == sanitize_filename(basename(outcomes[j].url))
                       IN /\ path_join(pdfs, name) \in DOMAIN files
                          /\ path_join(text, name) \in DOMAIN files
                          /\ files[path_join(pdfs, name)] = Body(outcomes[j].url)
                          /\ files[path_join(text, name)] = Body(outcomes[j].url)

C20_Witness ==
  /\ pc = "Done"
  /\ \E i \in 1..Len(page.elems) :
        /\ page.elems[i].tag = "a"
        /\ \A j \in AttemptsOf(i) : outcomes[j].status = "Saved"
        /\ Cardinality(AttemptsOf(i)) = 2
  /\ path_join(pdfs, <<"d",".","p","d","f">>) \in DOMAIN files
  /\ path_join(text, <<"d",".","p","d","f">>) \in DOMAIN files

====
